---- MODULE Spec2Model ----
(***************************************************************************)
(* The sampling-to-alert pipeline of backend/crypto_tracker.py.            *)
(*                                                                         *)
(* One run of run_scraper (a "tick") is cut into the steps of its try      *)
(* block: ingest (fetch_prices + the INSERTs into prices), calculate_stats,*)
(* check_for_alerts, the Slack notification, conn.commit(), and the except *)
(* handler's conn.rollback().  The PostgreSQL store is the three committed *)
(* tables plus the rows written by the open transaction; a query made      *)
(* inside the tick sees both.                                              *)
(*                                                                         *)
(* Representation:                                                        *)
(*  - a timestamp is a whole number of days (Day = timedelta(days=1));     *)
(*  - a price is an integer; a percent change (cur - prev) / prev * 100    *)
(*    is the fraction [num |-> (cur - prev) * 100, den |-> prev], with     *)
(*    den = 0 standing for the IEEE result of the float64 division         *)
(*    (inf, -inf or nan according to the sign of num);                     *)
(*  - volume_5min (a standard deviation) is held as its square, the        *)
(*    sample variance, as a fraction;                                      *)
(*  - rows whose timestamps are equal come out of an ORDER BY timestamp in *)
(*    any order, so calculate_stats and check_for_alerts each yield a set  *)
(*    of possible results, one per delivery order;                         *)
(*  - the columns are REAL and the arithmetic float64: the integer prices  *)
(*    used here are exact in both.                                         *)
(*  - a string that is built or taken apart (time_interval) is the        *)
(*    sequence of its characters; a Timedelta is its components days,      *)
(*    seconds and microseconds.                                            *)
(***************************************************************************)
EXTENDS Integers, Sequences, FiniteSets, TLC

\* ------------------------------------------------------------------ bounds
\* number of runs of run_scraper explored
MaxTicks == 3
\* largest advance of the wall clock between two runs, in days
MaxStep == 2
\* number of stored samples of an asset that may repeat the timestamp of an
\* earlier sample of that asset (datetime.now() read twice with one value)
MaxTies == 1

\* --------------------------------------------------------------- constants
\* the value line 14 gives variation_alert_threshold
ConfiguredThreshold == 2
\* timedelta(days=1) in the time unit of the model
Day == 1
\* "WHERE rn <= 50" of check_for_alerts
RecentLimit == 50
\* df_crypto.tail(6)
TailLen == 6

\* the tracked assets, in the order of the dict built by fetch_prices (which
\* is also the ORDER BY crypto / groupby order)
CryptoOrder == <<"BTC", "ETH", "XRP">>
Cryptos == {CryptoOrder[i] : i \in 1..Len(CryptoOrder)}

\* key of each asset in the provider's JSON
ApiId == [BTC |-> "bitcoin", ETH |-> "ethereum", XRP |-> "ripple"]
ApiIds == {ApiId[c] : c \in Cryptos}

\* the quotes the provider may hold at the time of a tick (usd per coin)
Markets ==
  {[bitcoin |-> 100, ethereum |-> 50, ripple |-> 2],
   [bitcoin |-> 103, ethereum |-> 50, ripple |-> 2]}

\* ----------------------------------------------------------------- helpers
Abs(x) == IF x < 0 THEN -x ELSE x

Range(s) == {s[i] : i \in 1..Len(s)}

RECURSIVE SumSeq(_)
SumSeq(s) == IF s = <<>> THEN 0 ELSE Head(s) + SumSeq(Tail(s))

MaxOf(S) == CHOOSE x \in S : \A y \in S : y <= x
MinOf(S) == CHOOSE x \in S : \A y \in S : x <= y

\* the last n elements of s (DataFrame.tail(n), and rn <= n of a query
\* ranked by timestamp DESC then read in ascending order)
LastN(s, n) == IF Len(s) <= n THEN s ELSE SubSeq(s, Len(s) - n + 1, Len(s))

\* the first k elements of s
Prefix(s, k) == SubSeq(s, 1, k)

\* All the orders in which "ORDER BY timestamp" (and then sort_values) may
\* deliver the rows of S: ascending in timestamp, rows with equal timestamps
\* in any order.
Orderings(S) ==
  {o \in [1..Cardinality(S) -> S] :
     /\ \A i, j \in 1..Cardinality(S) : i # j => o[i] # o[j]
     /\ \A i, j \in 1..Cardinality(S) : i < j => o[i].timestamp <= o[j].timestamp}

\* ((cur - prev) / prev) * 100 as computed on float64 values
PctChange(prev, cur) == [num |-> (cur - prev) * 100, den |-> prev]

\* AbsExceeds with >= in place of >
AbsExceedsOrEquals(p, threshold) ==
  IF p.den = 0 THEN p.num # 0
  ELSE Abs(p.num) >= threshold * Abs(p.den)

\* abs(p) > threshold for a percent change p; inf and -inf exceed every
\* threshold, nan exceeds none
AbsExceeds(p, threshold) ==
  IF p.den = 0 THEN p.num # 0
  ELSE Abs(p.num) > threshold * Abs(p.den)

\* the int 0 assigned when a branch does not compute a value
Zero == [num |-> 0, den |-> 1]

\* recent_prices['price'].std() (ddof = 1), squared
SampleVar(ps) ==
  [num |-> Len(ps) * SumSeq([i \in 1..Len(ps) |-> ps[i] * ps[i]])
             - SumSeq(ps) * SumSeq(ps),
   den |-> Len(ps) * (Len(ps) - 1)]

\* A string is the sequence of its characters.
DigitChars == <<"0", "1", "2", "3", "4", "5", "6", "7", "8", "9">>

\* str(n) of an int n >= 0
RECURSIVE NatStr(_)
NatStr(n) ==
  IF n < 10 THEN <<DigitChars[n + 1]>>
  ELSE NatStr(n \div 10) \o <<DigitChars[(n % 10) + 1]>>

\* f"{n:0w}"
ZeroPad(n, w) ==
  LET digits == NatStr(n)
  IN IF Len(digits) >= w THEN digits
     ELSE [i \in 1..(w - Len(digits)) |-> "0"] \o digits

\* A Timedelta >= 0 by its components: days, seconds of the day
\* (0..86399), microseconds of the second (0..999999).
\* str() of a pandas Timedelta: "<days> days HH:MM:SS", followed by "." and
\* six digits when the sub-second part is not zero
StrTimedelta(td) ==
  NatStr(td.days) \o <<" ", "d", "a", "y", "s", " ">>
    \o ZeroPad(td.seconds \div 3600, 2) \o <<":">>
    \o ZeroPad((td.seconds % 3600) \div 60, 2) \o <<":">>
    \o ZeroPad(td.seconds % 60, 2)
    \o (IF td.microseconds # 0
          THEN <<".">> \o ZeroPad(td.microseconds, 6) ELSE <<>>)

\* s.split('.')[0]: what precedes the first "." of s, s itself without one
SplitDotHead(s) ==
  LET dots == {i \in 1..Len(s) : s[i] = "."}
  IN IF dots = {} THEN s
     ELSE SubSeq(s, 1, (CHOOSE i \in dots : \A j \in dots : i <= j) - 1)

\* time_diff_str = str(time_diff).split('.')[0]
IntervalStr(td) == SplitDotHead(StrTimedelta(td))

\* time_diff_str of two timestamps d whole days apart
TimeDiffStr(d) ==
  IntervalStr([days |-> d \div Day, seconds |-> 0, microseconds |-> 0])

\* ------------------------------------------------------------------- state
VARIABLES
  prices,             \* committed rows of table prices
  stats,              \* committed rows of table stats
  alerts,             \* committed rows of table alerts
  tx_prices,          \* rows of prices written by the open transaction
  tx_stats,           \* rows of stats written by the open transaction
  tx_alerts,          \* rows of alerts written by the open transaction
  pc,                 \* position of the running tick in run_scraper
  variation_alert_threshold,  \* the module global of that name
  response,           \* what requests.get produced in this tick
  current_timestamp,  \* datetime.now() of the latest tick
  found,              \* the list returned by check_for_alerts
  send_calls,         \* messages passed to send_slack_alert by this tick
  sent,               \* messages posted to the Slack webhook by this tick
  exc,                \* origin of the exception caught by run_scraper:
                      \* "fetch" (requests.get), "KeyError" (the payload),
                      \* "store" (a cursor.execute or the commit), "notify"
                      \* (requests.post), or "none"
  ticks,              \* runs of run_scraper started so far
  time_diff,          \* check_for_alerts' local of that name, a Timedelta
  time_diff_str       \* check_for_alerts' local of that name
                      \* (both locals are out of scope, held at the zero
                      \* Timedelta and "", outside lines 188-189)

vars == <<prices, stats, alerts, tx_prices, tx_stats, tx_alerts, pc,
          variation_alert_threshold, response,
          current_timestamp, found, send_calls, sent, exc, ticks,
          time_diff, time_diff_str>>

store == <<prices, stats, alerts>>
tx == <<tx_prices, tx_stats, tx_alerts>>
interval == <<time_diff, time_diff_str>>

\* what a query inside the transaction reads from table prices
VisiblePrices == prices \o tx_prices

\* the zero Timedelta
NoTimeDiff == [days |-> 0, seconds |-> 0, microseconds |-> 0]

\* no request made yet
NoResponse == [kind |-> "none", data |-> <<>>]

\* initialize_db on an empty database: three empty tables, committed
Init ==
  /\ prices = <<>> /\ stats = <<>> /\ alerts = <<>>
  /\ tx_prices = <<>> /\ tx_stats = <<>> /\ tx_alerts = <<>>
  /\ pc = "idle"
  /\ variation_alert_threshold = ConfiguredThreshold
  /\ response = NoResponse
  /\ current_timestamp = 0
  /\ found = <<>>
  /\ send_calls = <<>>
  /\ sent = <<>>
  /\ exc = "none"
  /\ ticks = 0
  /\ time_diff = NoTimeDiff
  /\ time_diff_str = <<>>

\* ------------------------------------------------------------ fetch_prices
\* what requests.get may produce: a transport failure, a response with a
\* status other than 200, or a 200 response whose JSON quotes some of the
\* assets
Payloads == {[k \in K |-> m[k]] : m \in Markets, K \in SUBSET ApiIds}
Responses ==
  {[kind |-> "failed", data |-> <<>>], [kind |-> "status", data |-> <<>>]}
    \cup {[kind |-> "json", data |-> d] : d \in Payloads}

\* fetch_prices raises: requests.get raised, or data[...] hit a missing key
FetchRaises(resp) ==
  \/ resp.kind = "failed"
  \/ resp.kind = "json" /\ DOMAIN resp.data # ApiIds

\* the dict returned by fetch_prices when it returns
fetch_prices(resp) ==
  IF resp.kind = "status" THEN <<>>
  ELSE [c \in Cryptos |-> resp.data[ApiId[c]]]

\* the rows INSERTed by the loop over prices.items()
RECURSIVE NewPriceRows(_, _, _, _)
NewPriceRows(quoted, order, ts, id) ==
  IF order = <<>> THEN <<>>
  ELSE IF Head(order) \in DOMAIN quoted
    THEN <<[id |-> id, timestamp |-> ts, crypto |-> Head(order),
            price |-> quoted[Head(order)]]>>
           \o NewPriceRows(quoted, Tail(order), ts, id + 1)
    ELSE NewPriceRows(quoted, Tail(order), ts, id)


\* line 241-245: the INSERTs of one tick, all stamped current_timestamp
\* (prices.id is SERIAL: the code never reads its value, and the model numbers
\* the rows in the order they become visible)
InsertPrices(resp, ts) ==
  NewPriceRows(fetch_prices(resp), CryptoOrder, ts, Len(VisiblePrices) + 1)

\* the samples of the first asset stamped like an earlier sample of it
RepeatedStamps ==
  {i \in 1..Len(prices) :
     /\ prices[i].crypto = CryptoOrder[1]
     /\ \E j \in 1..(i - 1) :
          /\ prices[j].crypto = prices[i].crypto
          /\ prices[j].timestamp = prices[i].timestamp}

\* datetime.now() may return ts: time does not go back, and a value already
\* stored is returned again at most MaxTies times
ClockMayRead(ts) ==
  (\E i \in 1..Len(prices) : prices[i].timestamp = ts)
    => Cardinality(RepeatedStamps) < MaxTies

\* run_scraper, lines 235-245: fetch the prices, read the clock, insert one
\* sample per quoted asset.  An exception (from fetch_prices, before the
\* clock is read, or from an INSERT) transfers control to the except handler.
Ingest ==
  /\ pc = "idle"
  /\ ticks < MaxTicks
  /\ \E resp \in Responses :
       /\ response' = resp
       /\ \/ /\ FetchRaises(resp)
             /\ exc' = (IF resp.kind = "failed" THEN "fetch" ELSE "KeyError")
             /\ pc' = "except"
             /\ UNCHANGED <<tx_prices, current_timestamp>>
          \/ /\ ~FetchRaises(resp)
             /\ \E step \in 0..MaxStep :
                  LET ts == current_timestamp + step IN
                  /\ ClockMayRead(ts)
                  /\ current_timestamp' = ts
                  /\ \/ /\ tx_prices' = InsertPrices(resp, ts)
                        /\ exc' = "none"
                        /\ pc' = "stats"
                     \/ /\ \E k \in 0..(Len(InsertPrices(resp, ts)) - 1) :
                             tx_prices' = Prefix(InsertPrices(resp, ts), k)
                        /\ exc' = "store"
                        /\ pc' = "except"
  /\ ticks' = ticks + 1
  /\ UNCHANGED <<store, tx_stats, tx_alerts, found, send_calls, sent,
                 variation_alert_threshold>>
  /\ UNCHANGED interval

\* --------------------------------------------------------- calculate_stats
\* the rows of one asset among a set of rows
ByCrypto(S, c) == {r \in S : r.crypto = c}

PriceList(df) == [i \in 1..Len(df) |-> df[i].price]

\* StatRow with the 24h baseline read from the last row of df_24h (iloc[-1])
\* in place of the first
StatRowLastBaseline(crypto, df_crypto, ts, ts_24h_ago) ==
  LET current_price == df_crypto[Len(df_crypto)].price
      previous_price == df_crypto[Len(df_crypto) - 1].price
      df_24h == SelectSeq(df_crypto, LAMBDA r : r.timestamp >= ts_24h_ago)
      recent_prices == LastN(PriceList(df_crypto), TailLen)
  IN [timestamp |-> ts,
      crypto |-> crypto,
      current_price |-> current_price,
      price_change_pct |-> PctChange(previous_price, current_price),
      price_change_24h_pct |->
        (IF df_24h # <<>>
         THEN PctChange(df_24h[Len(df_24h)].price, current_price)
         ELSE Zero),
      volume_5min |->
        (IF Len(recent_prices) >= 2 THEN SampleVar(recent_prices) ELSE Zero),
      high_24h |-> MaxOf(Range(PriceList(df_crypto))),
      low_24h |-> MinOf(Range(PriceList(df_crypto)))]

\* lines 120-149: the row INSERTed into stats for one asset whose frame
\* df_crypto has at least 2 rows
StatRow(crypto, df_crypto, ts, ts_24h_ago) ==
  LET current_price == df_crypto[Len(df_crypto)].price
      previous_price == df_crypto[Len(df_crypto) - 1].price
      df_24h == SelectSeq(df_crypto, LAMBDA r : r.timestamp >= ts_24h_ago)
      recent_prices == LastN(PriceList(df_crypto), TailLen)
  IN [timestamp |-> ts,
      crypto |-> crypto,
      current_price |-> current_price,
      price_change_pct |-> PctChange(previous_price, current_price),
      price_change_24h_pct |->
        (IF df_24h # <<>> THEN PctChange(df_24h[1].price, current_price)
         ELSE Zero),
      volume_5min |->
        (IF Len(recent_prices) >= 2 THEN SampleVar(recent_prices) ELSE Zero),
      high_24h |-> MaxOf(Range(PriceList(df_crypto))),
      low_24h |-> MinOf(Range(PriceList(df_crypto)))]

\* StatRowsOf with the guard len(df_crypto) < 3
StatRowsOfMin3(crypto, df_crypto, ts, ts_24h_ago) ==
  IF Len(df_crypto) < 3 THEN <<>>
  ELSE <<StatRow(crypto, df_crypto, ts, ts_24h_ago)>>

\* lines 115-149: one pass of the loop body, for the frame df_crypto of one
\* asset: nothing below 2 rows, else one INSERT
StatRowsOf(crypto, df_crypto, ts, ts_24h_ago) ==
  IF Len(df_crypto) < 2 THEN <<>>
  ELSE <<StatRow(crypto, df_crypto, ts, ts_24h_ago)>>

\* lines 114-149: the loop over df['crypto'].unique() on the rows S of the
\* query.  "ORDER BY crypto, timestamp" and sort_values fix the order of an
\* asset's rows up to rows with equal timestamps, so the result is the set of
\* the INSERT sequences the loop may issue, one per delivery order.
RECURSIVE StatRows(_, _, _, _)
StatRows(S, order, ts, ts_24h_ago) ==
  IF order = <<>> THEN {<<>>}
  ELSE {a \o rest :
          a \in {StatRowsOf(Head(order), df_crypto, ts, ts_24h_ago) :
                   df_crypto \in Orderings(ByCrypto(S, Head(order)))},
          rest \in StatRows(S, Tail(order), ts, ts_24h_ago)}

\* lines 96-100: SELECT * FROM prices WHERE timestamp >= timestamp_24h_ago
Last24h(rows, ts_24h_ago) == {r \in Range(rows) : r.timestamp >= ts_24h_ago}

\* calculate_stats(conn, current_timestamp) on the visible rows of prices:
\* the INSERT sequences it may issue
calculate_stats(rows, ts) ==
  StatRows(Last24h(rows, ts - Day), CryptoOrder, ts, ts - Day)

\* run_scraper line 248
CalculateStats ==
  /\ pc = "stats"
  /\ \E new \in calculate_stats(VisiblePrices, current_timestamp) :
       \/ /\ tx_stats' = new
          /\ pc' = "alerts"
          /\ UNCHANGED exc
       \/ /\ \E k \in 0..(Len(new) - 1) : tx_stats' = Prefix(new, k)
          /\ exc' = "store"
          /\ pc' = "except"
  /\ UNCHANGED <<store, tx_prices, tx_alerts, current_timestamp,
                 found, send_calls, sent, ticks, variation_alert_threshold,
                 response>>
  /\ UNCHANGED interval

\* -------------------------------------------------------- check_for_alerts
\* lines 181-207: the alerts of one asset, one for each adjacent pair of
\* group whose change exceeds the threshold; i is the index of current_row
RECURSIVE PairAlerts(_, _, _, _)
PairAlerts(crypto, group, i, threshold) ==
  IF i > Len(group) THEN <<>>
  ELSE LET current_row == group[i]
           prev_row == group[i - 1]
           price_change == PctChange(prev_row.price, current_row.price)
       IN (IF AbsExceeds(price_change, threshold)
           THEN <<[crypto |-> crypto,
                   timestamp |-> current_row.timestamp,
                   start_price |-> prev_row.price,
                   end_price |-> current_row.price,
                   price_change_pct |-> price_change,
                   time_interval |->
                     TimeDiffStr(current_row.timestamp - prev_row.timestamp)]>>
           ELSE <<>>)
          \o PairAlerts(crypto, group, i + 1, threshold)

\* lines 177-209: the loop over df.groupby('crypto') on the rows S of table
\* prices; group is the rn <= 50 part of one delivery order of an asset's
\* rows.  The result is the set of the alert lists the loop may produce.
RECURSIVE GroupAlerts(_, _, _)
GroupAlerts(S, order, threshold) ==
  IF order = <<>> THEN {<<>>}
  ELSE {a \o rest :
          a \in {PairAlerts(Head(order), LastN(group, RecentLimit), 2,
                            threshold) :
                   group \in Orderings(ByCrypto(S, Head(order)))},
          rest \in GroupAlerts(S, Tail(order), threshold)}

\* check_for_alerts(conn, variation_threshold) on the visible rows of prices:
\* the lists it may insert and return
check_for_alerts(rows, threshold) ==
  GroupAlerts(Range(rows), CryptoOrder, threshold)

\* run_scraper line 251
CheckForAlerts ==
  /\ pc = "alerts"
  /\ \E new \in check_for_alerts(VisiblePrices, variation_alert_threshold) :
       \/ /\ tx_alerts' = new
          /\ found' = new
          /\ pc' = "notify"
          /\ UNCHANGED exc
       \/ /\ \E k \in 0..(Len(new) - 1) : tx_alerts' = Prefix(new, k)
          /\ exc' = "store"
          /\ pc' = "except"
          /\ UNCHANGED found
  /\ UNCHANGED <<store, tx_prices, tx_stats, current_timestamp,
                 send_calls, sent, ticks, variation_alert_threshold, response>>
  /\ UNCHANGED interval

\* ------------------------------------------------------------ notification
\* f"{x:.2f}" of a finite percent change, in hundredths (nearest, ties to
\* even)
Fmt2(p) ==
  LET n == Abs(p.num) * 100
      d == Abs(p.den)
      q == n \div d
      r == n % d
      m == IF 2 * r > d \/ (2 * r = d /\ q % 2 = 1) THEN q + 1 ELSE q
  IN IF (p.num < 0) # (p.den < 0) THEN -m ELSE m

\* format_alerts_for_slack: one message, one block per alert
format_alerts_for_slack(as) ==
  [i \in 1..Len(as) |->
     [crypto |-> as[i].crypto,
      timestamp |-> as[i].timestamp,
      start_price |-> as[i].start_price,
      end_price |-> as[i].end_price,
      price_change_pct |-> Fmt2(as[i].price_change_pct),
      time_interval |-> as[i].time_interval]]

\* Notify calling send_slack_alert once for every alert of the tick
NotifyEachAlert ==
  /\ pc = "notify"
  /\ send_calls' = send_calls \o
                     [i \in 1..Len(found) |->
                        format_alerts_for_slack(<<found[i]>>)]
  /\ \E webhook_url \in BOOLEAN :
       \/ /\ ~webhook_url \/ found = <<>>
          /\ pc' = "commit"
          /\ UNCHANGED <<sent, exc>>
       \/ /\ webhook_url /\ found # <<>>
          /\ sent' = sent \o
                       [i \in 1..Len(found) |->
                          format_alerts_for_slack(<<found[i]>>)]
          /\ pc' = "commit"
          /\ UNCHANGED exc
       \/ /\ webhook_url /\ found # <<>>
          /\ exc' = "notify"
          /\ pc' = "except"
          /\ UNCHANGED sent
  /\ UNCHANGED <<store, tx, current_timestamp, found, ticks, variation_alert_threshold,
                 response>>
  /\ UNCHANGED interval

\* run_scraper lines 254-256 with send_slack_alert: nothing to do without
\* alerts; otherwise one call of send_slack_alert with the formatted
\* message, which does nothing without SLACK_WEBHOOK_URL and otherwise makes
\* one requests.post, which may raise
Notify ==
  /\ pc = "notify"
  /\ \/ /\ found = <<>>
        /\ pc' = "commit"
        /\ UNCHANGED <<send_calls, sent, exc>>
     \/ /\ found # <<>>
        /\ send_calls' = Append(send_calls, format_alerts_for_slack(found))
        /\ \E webhook_url \in BOOLEAN :
             \/ /\ ~webhook_url
                /\ pc' = "commit"
                /\ UNCHANGED <<sent, exc>>
             \/ /\ webhook_url
                /\ sent' = Append(sent, format_alerts_for_slack(found))
                /\ pc' = "commit"
                /\ UNCHANGED exc
             \/ /\ webhook_url
                /\ exc' = "notify"
                /\ pc' = "except"
                /\ UNCHANGED sent
  /\ UNCHANGED <<store, tx, current_timestamp, found, ticks, variation_alert_threshold,
                 response>>
  /\ UNCHANGED interval

\* ------------------------------------------------------- commit / rollback
\* run_scraper lines 259-260 (then finally: close): the transaction's rows
\* become part of the committed tables, unless conn.commit() raises
Commit ==
  /\ pc = "commit"
  /\ \/ /\ prices' = prices \o tx_prices
        /\ stats' = stats \o tx_stats
        /\ alerts' = alerts \o tx_alerts
        /\ tx_prices' = <<>> /\ tx_stats' = <<>> /\ tx_alerts' = <<>>
        /\ pc' = "idle"
        /\ found' = <<>> /\ send_calls' = <<>> /\ sent' = <<>>
        /\ response' = NoResponse
        /\ UNCHANGED exc
     \/ /\ exc' = "store"
        /\ pc' = "except"
        /\ UNCHANGED <<store, tx, found, send_calls, sent, response>>
  /\ UNCHANGED <<current_timestamp, ticks, variation_alert_threshold>>
  /\ UNCHANGED interval

\* Rollback with the except handler committing what the transaction wrote
RollbackCommits ==
  /\ pc = "except"
  /\ prices' = prices \o tx_prices
  /\ stats' = stats \o tx_stats
  /\ alerts' = alerts \o tx_alerts
  /\ tx_prices' = <<>> /\ tx_stats' = <<>> /\ tx_alerts' = <<>>
  /\ pc' = "idle"
  /\ found' = <<>> /\ send_calls' = <<>> /\ sent' = <<>> /\ exc' = "none"
  /\ response' = NoResponse
  /\ UNCHANGED <<current_timestamp, ticks, variation_alert_threshold>>
  /\ UNCHANGED interval

\* run_scraper lines 262-267: conn.rollback() discards the transaction's rows
Rollback ==
  /\ pc = "except"
  /\ tx_prices' = <<>> /\ tx_stats' = <<>> /\ tx_alerts' = <<>>
  /\ pc' = "idle"
  /\ found' = <<>> /\ send_calls' = <<>> /\ sent' = <<>> /\ exc' = "none"
  /\ response' = NoResponse
  /\ UNCHANGED <<store, current_timestamp, ticks, variation_alert_threshold>>
  /\ UNCHANGED interval

Next ==
  \/ Ingest
  \/ CalculateStats
  \/ CheckForAlerts
  \/ Notify
  \/ Commit
  \/ Rollback

Spec == Init /\ [][Next]_vars

\* ---------------------------------------------- check_for_alerts in isolation
\* longest window of samples handed to check_for_alerts
MaxWindow == 3
\* prices of the samples of a window, and thresholds
WindowPrices == {0, 99, 100, 101, 103}
Thresholds == {1, 2, 3}

\* the windows: samples of one asset, numbered in insertion order, each at
\* the timestamp of the sample before it or one day later
Windows ==
  UNION {{[i \in 1..n |->
             [id |-> i, timestamp |-> ts[i], crypto |-> "BTC", price |-> ps[i]]] :
            ps \in [1..n -> WindowPrices],
            ts \in {t \in [1..n -> 0..n] :
                      \A i \in 1..n :
                        t[i] - (IF i = 1 THEN 0 ELSE t[i - 1]) \in {0, 1}}} :
           n \in 0..MaxWindow}

\* a connection whose table prices holds a window, about to run
\* check_for_alerts(conn, variation_threshold)
InitDetect ==
  /\ prices \in Windows
  /\ variation_alert_threshold \in Thresholds
  /\ stats = <<>> /\ alerts = <<>>
  /\ tx_prices = <<>> /\ tx_stats = <<>> /\ tx_alerts = <<>>
  /\ pc = "alerts"
  /\ response = NoResponse
  /\ current_timestamp = MaxWindow
  /\ found = <<>>
  /\ send_calls = <<>>
  /\ sent = <<>>
  /\ exc = "none"
  /\ ticks = 1
  /\ time_diff = NoTimeDiff
  /\ time_diff_str = <<>>

NextDetect == CheckForAlerts

SpecDetect == InitDetect /\ [][NextDetect]_vars

\* ------------------------------------------------- the interval formatter
\* Lines 188-189 of check_for_alerts taken alone, over the elapsed times of
\* two samples of an asset sorted by timestamp (so never negative).
IntervalDays == {0, 1, 12}
IntervalHours == {0, 1, 23}
IntervalMinutes == {0, 5, 59}
IntervalSeconds == {0, 7, 59}
IntervalMicroseconds == {0, 1, 500000, 999999}

\* current_row['timestamp'] - prev_row['timestamp'] of two pandas Timestamps
TimeDiffs ==
  {[days |-> d, seconds |-> h * 3600 + m * 60 + sec, microseconds |-> us] :
     d \in IntervalDays, h \in IntervalHours, m \in IntervalMinutes,
     sec \in IntervalSeconds, us \in IntervalMicroseconds}

\* line 188 has just assigned time_diff
InitInterval ==
  /\ time_diff \in TimeDiffs
  /\ time_diff_str = <<>>
  /\ prices = <<>> /\ stats = <<>> /\ alerts = <<>>
  /\ tx_prices = <<>> /\ tx_stats = <<>> /\ tx_alerts = <<>>
  /\ pc = "alerts"
  /\ variation_alert_threshold = ConfiguredThreshold
  /\ response = NoResponse
  /\ current_timestamp = 0
  /\ found = <<>>
  /\ send_calls = <<>>
  /\ sent = <<>>
  /\ exc = "none"
  /\ ticks = 1

\* line 189: time_diff_str = str(time_diff).split('.')[0]
FormatInterval ==
  /\ time_diff_str = <<>>
  /\ time_diff_str' = IntervalStr(time_diff)
  /\ UNCHANGED <<store, tx, pc, variation_alert_threshold, response,
                 current_timestamp, found, send_calls, sent, exc, ticks,
                 time_diff>>

NextInterval == FormatInterval

SpecInterval == InitInterval /\ [][NextInterval]_vars

TypeOK ==
  /\ pc \in {"idle", "stats", "alerts", "notify", "commit", "except"}
  /\ ticks \in 0..MaxTicks
  /\ exc \in {"none", "fetch", "KeyError", "store", "notify"}

\* ------------------------------------------------------------------ claims
\* the tick has passed the named step without an exception
AfterStats == pc \in {"alerts", "notify", "commit"}
AfterAlerts == pc \in {"notify", "commit"}

Empty3 == <<<<>>, <<>>, <<>>>>

\* C1: the alerts table holds at most one Alert per crossing, that is per
\* (asset, previous sample, current sample): a later tick that scans the
\* same samples again persists no second Alert for the pair.  (While the
\* samples of an asset have distinct timestamps, the columns of an Alert
\* identify its pair: the asset, the current sample's timestamp and price,
\* the previous sample's price, and the time between the two.)
C1_OneAlertPerCrossing ==
  Cardinality(RepeatedStamps) = 0 =>
    \A i, j \in 1..Len(alerts) : alerts[i] = alerts[j] => i = j

\* C2: when the notification raises, the tick's writes are not rolled back:
\* the step that ends the tick leaves the samples, StatRecords and Alerts of
\* the transaction in the committed tables.
C2_NotifierFailureKeepsWrites ==
  [][(pc = "except" /\ exc = "notify") =>
       /\ prices' = prices \o tx_prices
       /\ stats' = stats \o tx_stats
       /\ alerts' = alerts \o tx_alerts]_vars

\* C3: a notification is sent only after the tick's transaction has
\* committed: in no state has a message been posted while the rows of the
\* tick (its Alerts among them) are still uncommitted.
C3_NotifyAfterCommit == sent # <<>> => tx = Empty3

\* C4: a tick whose price source is unavailable (status other than 200, or
\* the request failed) ingests no sample and writes no StatRecord and no
\* Alert.
C4_UnavailableSourceWritesNothing ==
  response.kind \in {"status", "failed"} => tx = Empty3

\* C5: when the payload lacks the price of exactly one tracked asset, the
\* tick still appends and commits the sample of each asset the payload
\* quotes.
C5_MissingAssetOthersIngested ==
  [][(/\ pc = "except"
      /\ exc = "KeyError"
      /\ Cardinality(DOMAIN response.data) = Cardinality(ApiIds) - 1) =>
       \A c \in Cryptos :
         ApiId[c] \in DOMAIN response.data =>
           \E i \in (Len(prices) + 1)..Len(prices') :
             /\ prices'[i].crypto = c
             /\ prices'[i].timestamp = current_timestamp
             /\ prices'[i].price = response.data[ApiId[c]]]_vars

\* C6: check_for_alerts emits no Alert for an adjacent pair whose previous
\* price is 0, whatever the current price and the threshold.
C6_NoAlertOnZeroBaseline ==
  \A k \in 1..Len(tx_alerts) : tx_alerts[k].start_price # 0

\* C7: on a window of samples with positive prices, check_for_alerts emits
\* exactly one Alert for each adjacent pair whose |(cur - prev) / prev * 100|
\* is strictly greater than the threshold, carrying the pair's prices, and
\* no other Alert.
Crossing(prev, cur, pct) ==
  Abs(cur.price - prev.price) * 100 > pct * prev.price
\* the alert of the adjacent pair (o[i - 1], o[i])
AlertOfPair(o, i) ==
  [crypto |-> o[i].crypto,
   timestamp |-> o[i].timestamp,
   start_price |-> o[i - 1].price,
   end_price |-> o[i].price,
   price_change_pct |-> PctChange(o[i - 1].price, o[i].price),
   time_interval |-> TimeDiffStr(o[i].timestamp - o[i - 1].timestamp)]
C7_OneAlertPerQualifyingPair ==
  (AfterAlerts /\ \A r \in Range(VisiblePrices) : r.price > 0) =>
    /\ tx_alerts = found
    /\ \E o \in Orderings(ByCrypto(Range(VisiblePrices), "BTC")) :
         LET Q == {i \in 2..Len(o) :
                     Crossing(o[i - 1], o[i], variation_alert_threshold)}
             btc == SelectSeq(found, LAMBDA a : a.crypto = "BTC")
         IN /\ Len(btc) = Cardinality(Q)
            /\ \A i \in Q :
                 btc[Cardinality({j \in Q : j <= i})] = AlertOfPair(o, i)
C7_Witness ==
  /\ AfterAlerts
  /\ \A r \in Range(VisiblePrices) : r.price > 0
  /\ Len(found) = 2
  /\ Len(VisiblePrices) = 3

\* C8: a tick is atomic with respect to the store.  The committed tables
\* change only in the step that commits a tick that raised nothing; the
\* except handler leaves them as they were, discards the transaction and
\* ends the tick, which is not run again.
C8_TickAtomic ==
  [][/\ (pc = "except" =>
           /\ store' = store
           /\ tx' = Empty3
           /\ pc' = "idle"
           /\ ticks' = ticks)
     /\ (store' # store => pc = "commit" /\ pc' = "idle" /\ exc = "none")]_vars
C8_Witness ==
  /\ pc = "except"
  /\ exc = "store"
  /\ tx_prices # <<>>
  /\ tx_stats # <<>>
  /\ tx_alerts # <<>>

\* C9: calculate_stats writes exactly one StatRecord for every asset with at
\* least 2 samples in the 24h window and none for an asset with fewer.
InWindow(c) ==
  {r \in Range(VisiblePrices) :
     r.crypto = c /\ r.timestamp >= current_timestamp - Day}
C9_OneStatPerAssetWithTwoSamples ==
  AfterStats =>
    \A c \in Cryptos :
      Cardinality({i \in 1..Len(tx_stats) : tx_stats[i].crypto = c})
        = (IF Cardinality(InWindow(c)) >= 2 THEN 1 ELSE 0)
C9_Witness ==
  /\ AfterStats
  /\ Len(tx_stats) = Cardinality(Cryptos)
  /\ \A c \in Cryptos : Cardinality(InWindow(c)) = 2
  /\ \E r \in Range(VisiblePrices) : r.timestamp < current_timestamp - Day

\* C10: the price_change_24h_pct of every StatRecord written is the percent
\* change from the earliest sample of the asset at or after (tick time - 24h)
\* to its latest sample; it is computed against the oldest sample, not set
\* to the sentinel, when that sample is younger than 24h.
C10_Change24hFromEarliestInWindow ==
  AfterStats =>
    \A i \in 1..Len(tx_stats) :
      \E e, l \in InWindow(tx_stats[i].crypto) :
        /\ \A r \in InWindow(tx_stats[i].crypto) :
             e.timestamp <= r.timestamp /\ r.timestamp <= l.timestamp
        /\ tx_stats[i].price_change_24h_pct = PctChange(e.price, l.price)
        /\ tx_stats[i].price_change_24h_pct # Zero
C10_Witness ==
  /\ AfterStats
  /\ \A r \in Range(VisiblePrices) : r.timestamp > current_timestamp - Day
  /\ \E i \in 1..Len(tx_stats) : tx_stats[i].price_change_24h_pct.num # 0

\* C11: every Alert in the alerts table is the alert of an ordered pair
\* (previous, current) of stored samples of the same asset whose
\* previous.timestamp is strictly less than current.timestamp, and carries
\* the timestamp of the later sample, also when the store holds samples of
\* an asset with equal timestamps.
C11_AlertPairStrictlyOrdered ==
  \A k \in 1..Len(alerts) :
    \E previous, current \in ByCrypto(Range(prices), alerts[k].crypto) :
      /\ previous.timestamp < current.timestamp
      /\ alerts[k].timestamp = current.timestamp
      /\ alerts[k].start_price = previous.price
      /\ alerts[k].end_price = current.price
      /\ alerts[k].time_interval =
           TimeDiffStr(current.timestamp - previous.timestamp)

\* C12: in a tick send_slack_alert is called at most once: not at all when
\* check_for_alerts returned no Alert, and exactly once when it returned one
\* or more, with one message that holds a block for every Alert of the tick
\* (what is posted to the webhook is that message).
Dispatched == pc = "commit" \/ (pc = "except" /\ exc = "notify")
BlockOf(alert) ==
  [crypto |-> alert.crypto,
   timestamp |-> alert.timestamp,
   start_price |-> alert.start_price,
   end_price |-> alert.end_price,
   price_change_pct |-> Fmt2(alert.price_change_pct),
   time_interval |-> alert.time_interval]
C12_OneMessagePerTick ==
  /\ Len(send_calls) <= 1
  /\ found = <<>> => send_calls = <<>>
  /\ Range(sent) \subseteq Range(send_calls)
  /\ (Dispatched /\ found # <<>>) =>
       /\ Len(send_calls) = 1
       /\ Len(send_calls[1]) = Len(found)
       /\ \A i \in 1..Len(found) : send_calls[1][i] = BlockOf(found[i])
C12_Witness ==
  /\ Dispatched
  /\ Len(found) >= 2
  /\ Len(send_calls) = 1
  /\ sent = send_calls

\* int(chars) of a string of digits
RECURSIVE ParseNat(_)
ParseNat(chars) ==
  IF chars = <<>> THEN 0
  ELSE ParseNat(SubSeq(chars, 1, Len(chars) - 1)) * 10
         + (CHOOSE d \in 0..9 : DigitChars[d + 1] = chars[Len(chars)])
\* s.split(sep)
RECURSIVE Split(_, _)
Split(s, sep) ==
  LET at == {i \in 1..Len(s) : s[i] = sep}
  IN IF at = {} THEN <<s>>
     ELSE LET k == CHOOSE i \in at : \A j \in at : i <= j
          IN <<SubSeq(s, 1, k - 1)>> \o Split(SubSeq(s, k + 1, Len(s)), sep)
\* the duration written "[<days> days ]H:MM:SS", in days and seconds
ParseInterval(s) ==
  LET words == Split(s, " ")
      clock == Split(words[Len(words)], ":")
  IN [days |-> IF Len(words) = 3 THEN ParseNat(words[1]) ELSE 0,
      seconds |-> ParseNat(clock[1]) * 3600 + ParseNat(clock[2]) * 60
                    + ParseNat(clock[3])]
FiveMinutes == [days |-> 0, seconds |-> 300, microseconds |-> 0]
\* C13: an Alert's time_interval is the elapsed time between its two samples
\* without the sub-second part; reading the string back gives the elapsed
\* time to the second; and a gap of 5 minutes is written "0:05:00".
C13_IntervalTruncatesAndRoundTrips ==
  time_diff_str # <<>> =>
    /\ time_diff_str =
         StrTimedelta([time_diff EXCEPT !.microseconds = 0])
    /\ ParseInterval(time_diff_str) =
         [days |-> time_diff.days, seconds |-> time_diff.seconds]
    /\ time_diff = FiveMinutes =>
         time_diff_str = <<"0", ":", "0", "5", ":", "0", "0">>

\* C14: in every tick, for every asset ingested in the tick that gets a
\* row of stats, the row's current_price is the price ingested for the asset
\* in this tick and its price_change_pct is taken from the most recent
\* earlier sample of the asset, whatever the clock values of the ticks as
\* long as they never decrease.
C14_StatOfIngestedSample ==
  AfterStats =>
    \A k \in 1..Len(tx_stats) :
      \A ingested \in ByCrypto(Range(tx_prices), tx_stats[k].crypto) :
        /\ tx_stats[k].current_price = ingested.price
        /\ \E previous \in ByCrypto(Range(prices), tx_stats[k].crypto) :
             /\ \A r \in ByCrypto(Range(prices), tx_stats[k].crypto) :
                  r.timestamp <= previous.timestamp
             /\ tx_stats[k].price_change_pct =
                  PctChange(previous.price, ingested.price)

====
